---- MODULE Spec2Model ----
(***************************************************************************)
(* Model of scraper/scrape_nsaa_softball.py: the NSAA softball scraper.    *)
(* Text is a sequence of one-character strings, so that clean,             *)
(* strip_record, norm and the regular expressions are computed character   *)
(* by character.  A table is the record of what BeautifulSoup hands to the *)
(* code: its caption, the texts of the nodes before it, the anchors before *)
(* it and its <tr> rows.                                                    *)
(***************************************************************************)
EXTENDS Integers, Sequences, FiniteSets, TLC

\* ------------------------------------------------------------ characters
UpperSeq == <<"A","B","C","D","E","F","G","H","I","J","K","L","M","N","O","P","Q","R","S","T","U","V","W","X","Y","Z">>
LowerSeq == <<"a","b","c","d","e","f","g","h","i","j","k","l","m","n","o","p","q","r","s","t","u","v","w","x","y","z">>
DigitSeq == <<"0","1","2","3","4","5","6","7","8","9">>

Range(f) == { f[x] : x \in DOMAIN f }

Upper == Range(UpperSeq)
Lower == Range(LowerSeq)
Digits == Range(DigitSeq)
Letters == Upper \cup Lower

\* The non-breaking space "\xa0" of clean().
NBSP == "nbsp"

\* What \s matches once "\xa0" has been replaced.
WS == {" ", "\t", "\n", "\r"}

\* str.lower() on one character.
LowerChar(c) ==
    IF c \in Upper THEN LowerSeq[CHOOSE i \in 1..26 : UpperSeq[i] = c] ELSE c

LowerStr(s) == [i \in 1..Len(s) |-> LowerChar(s[i])]

\* ------------------------------------------------------------ text helpers
\* The least index >= i of s whose character is not in S, Len(s)+1 if none.
FirstNot(s, i, S) ==
    IF \E j \in i..Len(s) : s[j] \notin S
    THEN CHOOSE j \in i..Len(s) : s[j] \notin S /\ \A k \in i..(j-1) : s[k] \in S
    ELSE Len(s) + 1

\* The least index >= i of s whose character is c, Len(s)+1 if none.
FirstChar(s, i, c) ==
    IF \E j \in i..Len(s) : s[j] = c
    THEN CHOOSE j \in i..Len(s) : s[j] = c /\ \A k \in i..(j-1) : s[k] # c
    ELSE Len(s) + 1

\* The greatest index of s whose character is not in S, 0 if none.
LastNot(s, S) ==
    IF \E j \in 1..Len(s) : s[j] \notin S
    THEN CHOOSE j \in 1..Len(s) : s[j] \notin S /\ \A k \in (j+1)..Len(s) : s[k] \in S
    ELSE 0

\* str.strip()
Strip(s) == SubSeq(s, FirstNot(s, 1, WS), LastNot(s, WS))

\* re.sub(r"\s+", " ", s): every run of whitespace becomes one space.
RECURSIVE CollapseWs(_)
CollapseWs(s) ==
    IF s = <<>> THEN <<>>
    ELSE IF Head(s) \in WS
         THEN <<" ">> \o CollapseWs(SubSeq(s, FirstNot(s, 1, WS), Len(s)))
         ELSE <<Head(s)>> \o CollapseWs(Tail(s))

\* pat in s (substring test).
Contains(s, pat) ==
    \E i \in 1..(Len(s) - Len(pat) + 1) : SubSeq(s, i, i + Len(pat) - 1) = pat

\* s.startswith(pat)
StartsWith(s, pat) == Len(s) >= Len(pat) /\ SubSeq(s, 1, Len(pat)) = pat

\* " ".join(parts) over the non-empty stripped parts: tr.get_text(" ", strip=True)
RECURSIVE JoinText(_)
JoinText(parts) ==
    IF parts = <<>> THEN <<>>
    ELSE LET h == Strip(Head(parts))
             r == JoinText(Tail(parts))
         IN IF h = <<>> THEN r
            ELSE IF r = <<>> THEN h
            ELSE h \o <<" ">> \o r

\* ------------------------------------------------------------ small helpers
\* clean(s): collapse whitespace and strip NBSP.
clean(s) == Strip(CollapseWs([i \in 1..Len(s) |-> IF s[i] = NBSP THEN " " ELSE s[i]]))

\* Does s[i..] match \s*\([^)]*\)\s*$ ?
RecordSuffixAt(s, i) ==
    LET p == FirstNot(s, i, WS)
        q == FirstChar(s, p + 1, ")")
    IN /\ p <= Len(s)
       /\ s[p] = "("
       /\ q <= Len(s)
       /\ FirstNot(s, q + 1, WS) = Len(s) + 1

\* Does s end with a win-loss record, "(" digits "-" digits ")" ?  The
\* index of its "(", 0 if it does not.
RecordStart(s) ==
    LET n == Len(s)
        ok(p) == /\ s[p] = "("
                 /\ \E m \in (p+2)..(n-2) :
                       /\ s[m] = "-"
                       /\ \A x \in (p+1)..(m-1) : s[x] \in Digits
                       /\ \A x \in (m+1)..(n-1) : s[x] \in Digits
    IN IF n >= 5 /\ s[n] = ")" /\ \E p \in 1..(n-4) : ok(p)
       THEN CHOOSE p \in 1..(n-4) : ok(p)
       ELSE 0

\* Mutant of strip_record: only a "(digits-digits)" group is stripped.
strip_record_RecordOnly(name_with_record) ==
    LET c == clean(name_with_record)
    IN IF RecordStart(c) > 0
       THEN SubSeq(c, 1, LastNot(SubSeq(c, 1, RecordStart(c) - 1), WS))
       ELSE c

\* strip_record(name_with_record): re.sub removes the leftmost match.
strip_record(name_with_record) ==
    LET c == clean(name_with_record)
    IN IF \E i \in 1..Len(c) : RecordSuffixAt(c, i)
       THEN LET i == CHOOSE i \in 1..Len(c) :
                        RecordSuffixAt(c, i) /\ \A k \in 1..(i-1) : ~RecordSuffixAt(c, k)
            IN SubSeq(c, 1, i - 1)
       ELSE c

\* norm(s): lowercase, every character outside [a-z0-9] removed.
IsKeyChar(ch) == ch \in Lower \cup Digits
norm(s) == SelectSeq(LowerStr(s), IsKeyChar)

\* The character class of TEAM_PAT's name group: [A-Za-z0-9 .@&'â€™/-]
NameChars == Letters \cup Digits \cup {" ", ".", "@", "&", "'", "/", "-", "U+00E2", "U+20AC", "U+2122"}

\* TEAM_PAT matched at position i of text: the index of the closing
\* parenthesis, 0 if there is no match at i.
\* ([A-Za-z][A-Za-z0-9 .@&'â€™/-]+)\s*\(\d+-\d+\)
TeamPatEnd(text, i) ==
    LET j == FirstNot(text, i + 1, NameChars)
        p == FirstNot(text, j, WS)
        m == FirstNot(text, p + 1, Digits)
        e == FirstNot(text, m + 1, Digits)
    IN IF /\ i <= Len(text) /\ text[i] \in Letters
          /\ j >= i + 2
          /\ p <= Len(text) /\ text[p] = "("
          /\ m >= p + 2 /\ m <= Len(text) /\ text[m] = "-"
          /\ e >= m + 2 /\ e <= Len(text) /\ text[e] = ")"
       THEN e ELSE 0

\* TEAM_PAT.search(text): m.group(0) of the leftmost match, <<>> if none
\* (a match is never empty).
TEAM_PAT(text) ==
    IF \E i \in 1..Len(text) : TeamPatEnd(text, i) > 0
    THEN LET i == CHOOSE i \in 1..Len(text) :
                     TeamPatEnd(text, i) > 0 /\ \A k \in 1..(i-1) : TeamPatEnd(text, k) = 0
         IN SubSeq(text, i, TeamPatEnd(text, i))
    ELSE <<>>

\* re.search(r"\(([^)]+)\)", t): m.group(1) of the leftmost match; found is
\* FALSE when there is none.
ParenGroupAt(t, p) ==
    t[p] = "(" /\ FirstChar(t, p + 1, ")") <= Len(t) /\ FirstChar(t, p + 1, ")") >= p + 2

ParenGroup(t) ==
    IF \E p \in 1..Len(t) : ParenGroupAt(t, p)
    THEN LET p == CHOOSE p \in 1..Len(t) :
                     ParenGroupAt(t, p) /\ \A k \in 1..(p-1) : ~ParenGroupAt(t, k)
         IN [found |-> TRUE, text |-> SubSeq(t, p + 1, FirstChar(t, p + 1, ")") - 1)]
    ELSE [found |-> FALSE, text |-> <<>>]

\* ------------------------------------------------------------ program constants
\* CLASS_URLS: the division codes in the order of the dictionary.
CLASS_URLS == << <<"A">>, <<"B">>, <<"C">> >>

ColDate == <<"D","a","t","e">>
ColOpponent == <<"O","p","p","o","n","e","n","t">>
ColClass == <<"C","l","a","s","s">>
ColWL == <<"W","-","L">>
ColWSlashL == <<"W","/","L">>
ColScore == <<"S","c","o","r","e">>
ColTName == <<"T","o","u","r","n","a","m","e","n","t"," ","N","a","m","e">>
ColTLoc == <<"T","o","u","r","n","a","m","e","n","t"," ","L","o","c","a","t","i","o","n">>
ColSite == <<"S","i","t","e">>
ColTime == <<"T","i","m","e">>
ColHomeAway == <<"H","o","m","e","/","A","w","a","y">>

KEEP_COLS == {ColDate, ColOpponent, ColClass, ColWL, ColWSlashL, ColScore,
              ColTName, ColTLoc, ColSite, ColTime, ColHomeAway}

HdrOpponents == <<"O","p","p","o","n","e","n","t","s">>
HdrOpponentsColon == <<"O","p","p","o","n","e","n","t","s",":">>
\* The names that, beside "Date", make a row the header row.
HeaderMarks == {ColOpponent, HdrOpponents, HdrOpponentsColon, ColTName}

TotalPointsLit == <<"T","o","t","a","l"," ","P","o","i","n","t","s",":">>
OpponentsLit == <<"o","p","p","o","n","e","n","t","s">>
ExportLit == <<"C","l","i","c","k"," ","H","e","r","e"," ","f","o","r"," ","E","x","c","e","l"," ","E","x","p","o","r","t">>

KeyTeam == <<"_","t","e","a","m">>
KeyTeamDisplay == <<"_","t","e","a","m","_","d","i","s","p","l","a","y">>
KeyClass == <<"_","c","l","a","s","s">>
Provenance == {KeyTeam, KeyTeamDisplay, KeyClass}

\* The backward walk examines at most this many nodes.
MaxSteps == 80

\* ------------------------------------------------------------ Team-Locator
\* 1) caption: table.find("caption"); a Tag is true even when it is empty.
CaptionIdentity(table) ==
    LET full == clean(table.caption.text)
    IN [found |-> TRUE, team |-> strip_record(full), display |-> full]

\* 2) the nodes the backward walk reads (steps 1..80) whose cleaned text is
\*    not empty and holds a TEAM_PAT match; table.before lists the nodes
\*    before the table that carry text, nearest first, with their distance.
\* Mutant of ScanHits: the walk has no step limit.
ScanHits_Unbounded(table) ==
    { n \in 1..Len(table.before) :
        /\ clean(table.before[n].text) # <<>>
        /\ TEAM_PAT(clean(table.before[n].text)) # <<>> }

ScanHits(table) ==
    { n \in 1..Len(table.before) :
        /\ table.before[n].dist <= MaxSteps
        /\ clean(table.before[n].text) # <<>>
        /\ TEAM_PAT(clean(table.before[n].text)) # <<>> }

BackwardIdentity(table) ==
    LET n == CHOOSE n \in ScanHits(table) : \A k \in ScanHits(table) : n <= k
        full == TEAM_PAT(clean(table.before[n].text))
    IN [found |-> TRUE, team |-> strip_record(full), display |-> full]

\* 3) table.find_previous("a", string=re.compile("Click Here for Excel
\*    Export", re.I)): the nearest anchor before the table whose string holds
\*    the phrase, whatever its case; table.anchors lists them nearest first.
IsExportAnchor(text) == Contains(LowerStr(text), LowerStr(ExportLit))

ExportAnchors(table) == { n \in 1..Len(table.anchors) : IsExportAnchor(table.anchors[n]) }

ExportIdentity(table) ==
    LET n == CHOOSE n \in ExportAnchors(table) : \A k \in ExportAnchors(table) : n <= k
        m == ParenGroup(clean(table.anchors[n]))
    IN IF m.found
       THEN [found |-> TRUE, team |-> strip_record(m.text), display |-> m.text]
       ELSE [found |-> FALSE, team |-> <<>>, display |-> <<>>]

extract_team_name_for_table(table) ==
    IF table.caption.present THEN CaptionIdentity(table)
    ELSE IF ScanHits(table) # {} THEN BackwardIdentity(table)
    ELSE IF ExportAnchors(table) # {} THEN ExportIdentity(table)
    ELSE [found |-> FALSE, team |-> <<>>, display |-> <<>>]

\* ------------------------------------------------------------ Row-Extractor
\* cells = [clean(td.get_text()) for td in tr.find_all(["td", "th"])]
CellsOf(tr) == [i \in 1..Len(tr.cells) |-> clean(tr.cells[i])]

\* The header test of one row.
IsHeaderRow(tr) ==
    LET cells == CellsOf(tr)
    IN /\ cells # <<>>
       /\ ColDate \in Range(cells)
       /\ Range(cells) \cap HeaderMarks # {}

\* The index of the first header row of the table, 0 if there is none.
HeaderIndex(trs) ==
    IF \E i \in 1..Len(trs) : IsHeaderRow(trs[i])
    THEN CHOOSE i \in 1..Len(trs) :
             IsHeaderRow(trs[i]) /\ \A k \in 1..(i-1) : ~IsHeaderRow(trs[k])
    ELSE 0

\* tr.get_text(" ", strip=True) holds "Total Points:"
HasTotalPoints(tr) == Contains(JoinText(tr.cells), TotalPointsLit)

\* Mutant of ProjectRow: every column is kept, whitelisted or not.
ProjectRow_Unfiltered(hdrs, cells) ==
    LET n == IF Len(hdrs) < Len(cells) THEN Len(hdrs) ELSE Len(cells)
    IN [h \in { hdrs[i] : i \in 1..n } |->
            cells[CHOOSE i \in 1..n : hdrs[i] = h /\ \A k \in 1..n : hdrs[k] = h => k <= i]]

\* The row dictionary of lines 147-152: for i below the shorter length, the
\* kept column headers[i] gets cells[i]; a later position overwrites.
ProjectRow(hdrs, cells) ==
    LET n == IF Len(hdrs) < Len(cells) THEN Len(hdrs) ELSE Len(cells)
        kept == { i \in 1..n : hdrs[i] \in KEEP_COLS }
    IN [h \in { hdrs[i] : i \in kept } |->
            cells[CHOOSE i \in kept : hdrs[i] = h /\ \A k \in kept : hdrs[k] = h => k <= i]]

\* Mutant of StampRow: _team and _team_display exchanged.
StampRow_Swapped(row, tm, disp, cls) ==
    [h \in DOMAIN row \cup Provenance |->
        IF h = KeyTeam THEN disp
        ELSE IF h = KeyTeamDisplay THEN tm
        ELSE IF h = KeyClass THEN cls
        ELSE row[h]]

\* Lines 157-159: the three provenance fields.
StampRow(row, tm, disp, cls) ==
    [h \in DOMAIN row \cup Provenance |->
        IF h = KeyTeam THEN tm
        ELSE IF h = KeyTeamDisplay THEN disp
        ELSE IF h = KeyClass THEN cls
        ELSE row[h]]

\* Mutant of RowVerdict: a "Total Points:" row is passed over, not a stop.
RowVerdict_TotalSkipped(tr, hdrs) ==
    LET cells == CellsOf(tr)
    IN IF tr.hr THEN "break"
       ELSE IF HasTotalPoints(tr) THEN "continue"
       ELSE IF cells = <<>> THEN "continue"
       ELSE IF cells[1] = ColDate THEN "continue"
       ELSE IF cells[1] # <<>> /\ StartsWith(LowerStr(cells[1]), OpponentsLit) THEN "continue"
       ELSE IF DOMAIN ProjectRow(hdrs, cells) = {} THEN "continue"
       ELSE "append"

\* What one iteration of the data-row loop does with a row.
RowVerdict(tr, hdrs) ==
    LET cells == CellsOf(tr)
    IN IF tr.hr THEN "break"
       ELSE IF HasTotalPoints(tr) THEN "break"
       ELSE IF cells = <<>> THEN "continue"
       ELSE IF cells[1] = ColDate THEN "continue"
       ELSE IF cells[1] # <<>> /\ StartsWith(LowerStr(cells[1]), OpponentsLit) THEN "continue"
       ELSE IF DOMAIN ProjectRow(hdrs, cells) = {} THEN "continue"
       ELSE "append"

\* d.setdefault(k, []).extend(rs)
EmptyDict == [k \in {} |-> <<>>]

\* Mutant of Extend: the list of an existing key is replaced.
Extend_Overwrite(d, k, rs) ==
    [x \in DOMAIN d \cup {k} |-> IF x = k THEN rs ELSE d[x]]

Extend(d, k, rs) ==
    [x \in DOMAIN d \cup {k} |->
        IF x = k THEN (IF k \in DOMAIN d THEN d[k] ELSE <<>>) \o rs ELSE d[x]]

\* for k, rows in data.items(): all_teams.setdefault(k, []).extend(rows)
MergeInto(all, data) ==
    [x \in DOMAIN all \cup DOMAIN data |->
        (IF x \in DOMAIN all THEN all[x] ELSE <<>>) \o
        (IF x \in DOMAIN data THEN data[x] ELSE <<>>)]

\* ------------------------------------------------------------ bounds
\* Tables on one page (Spec).
MaxTables == 2
\* Rows after the header row of a table (SpecRows).
MaxRows == 3
\* Text nodes before a table (SpecLocate).
MaxNodes == 2
\* Anchors before a table (SpecLocate).
MaxAnchors == 2

\* ------------------------------------------------------------ inputs
N_Ab == <<"A","b"," ","(","1","-","4",")">>
N_a_b == <<"a",".","b"," ","(","2","-","3",")">>
N_Cd == <<"C","d"," ","(","0","-","1",")">>
N_Ws == <<" ","A",NBSP," ","b","\t","(","1","-","4",")"," ">>
N_JV == <<"A","b"," ","(","J","V",")">>
N_Dot == <<"."," ","(","1","-","1",")">>
N_Rec == <<"(","1","-","4",")">>
B_Near == <<"x"," ","C","d"," ","(","2","-","3",")"," ","y">>
B_Far == <<"E","f"," ","(","0","-","0",")">>
B_Plain == <<"H","o","m","e">>
A_Export == <<"C","l","i","c","k"," ","H","e","r","e"," ","f","o","r"," ","E","x","c","e","l"," ","E","x","p","o","r","t"," ","(","G","h",")">>
A_NoName == <<"c","l","i","c","k"," ","h","e","r","e"," ","f","o","r"," ","e","x","c","e","l"," ","e","x","p","o","r","t">>
A_Other == <<"H","o","m","e"," ","(","Z","z",")">>
V_D1 == <<"9","/","1">>
V_D2 == <<"9","/","2">>
V_D3 == <<"9","/","3">>
V_Hx == <<"H","x">>
V_Extra == <<"E","x","t","r","a">>
V_Total == <<"T","o","t","a","l"," ","P","o","i","n","t","s",":"," ","4","2">>
V_Total4 == <<"4","2"," ","T","o","t","a","l">>
V_Points == <<"P","o","i","n","t","s",":">>
V_zz == <<"z","z">>
V_ww == <<" ","w"," "," ","w"," ">>

Tr(hr, cells) == [hr |-> hr, cells |-> cells]

R_Hdr == Tr(FALSE, <<ColDate, ColOpponent, V_Extra>>)
R_Hdr2 == Tr(FALSE, <<V_Extra, ColDate, HdrOpponentsColon, ColDate>>)
R_Game1 == Tr(FALSE, <<V_D1, V_Hx, V_zz, V_ww, V_Hx>>)
R_Game2 == Tr(FALSE, <<V_D2, V_ww>>)
R_Short == Tr(FALSE, <<V_D3>>)
R_Rule == Tr(TRUE, <<>>)
R_Total == Tr(FALSE, <<V_Total>>)
R_TotalSplit == Tr(FALSE, <<V_Total4, V_Points>>)
R_Section == Tr(FALSE, <<HdrOpponentsColon>>)
R_NoCells == Tr(FALSE, <<>>)

\* All sequences over S of length at most n.
SeqsUpTo(S, n) == UNION { [1..k -> S] : k \in 0..n }

NoCaption == [present |-> FALSE, text |-> <<>>]
Caption(text) == [present |-> TRUE, text |-> text]

Table(cap, before, anchors, trs) ==
    [caption |-> cap, before |-> before, anchors |-> anchors, trs |-> trs]

\* Spec: captioned tables of three teams, two of which share a key.
MainTables ==
    { Table(Caption(N_Ab), <<>>, <<>>, <<R_Hdr, R_Game1>>),
      Table(Caption(N_a_b), <<>>, <<>>, <<R_Hdr, R_Game2>>),
      Table(Caption(N_Cd), <<>>, <<>>, <<R_Hdr2, R_Game1>>) }

\* SpecRows: one captioned table; an optional row before the header row,
\* a header row or none, and up to MaxRows rows after it.
BodyRows == {R_Hdr, R_Game1, R_Game2, R_Short, R_Rule, R_Total, R_TotalSplit,
             R_Section, R_NoCells}

RowTables ==
    { Table(Caption(N_Ab), <<>>, <<>>, pre \o hdr \o body) :
        pre \in {<<>>, <<R_Game2>>},
        hdr \in {<<R_Hdr>>, <<R_Hdr2>>},
        body \in SeqsUpTo(BodyRows, MaxRows) }
    \cup { Table(Caption(N_Ab), <<>>, <<>>, <<R_Game1, R_Total>>) }

\* SpecLocate: one table with a header row and a game; every caption, up to
\* MaxNodes text nodes before it (nearest first) and up to MaxAnchors anchors.
Captions == {NoCaption, Caption(N_Ws), Caption(N_JV), Caption(N_Dot), Caption(N_Rec)}

NodeDists == {1, MaxSteps, MaxSteps + 1}
NodeTexts == {B_Near, B_Far, B_Plain}
Nodes == [dist : NodeDists, text : NodeTexts]

Befores ==
    { b \in SeqsUpTo(Nodes, MaxNodes) : \A i \in 1..(Len(b) - 1) : b[i].dist < b[i+1].dist }

AnchorLists == SeqsUpTo({A_Export, A_NoName, A_Other}, MaxAnchors)

LocateTables ==
    { Table(cap, b, a, <<R_Hdr, R_Game1>>) :
        cap \in Captions, b \in Befores, a \in AnchorLists }

\* The output file before the run: absent, or written by an earlier run.
PriorFiles == { [state |-> "absent", by_team |-> EmptyDict],
                [state |-> "prior", by_team |-> EmptyDict] }

\* ------------------------------------------------------------ state
VARIABLES
    docs,          \* division index -> the tables of the page its URL serves
    prior,         \* the output file when main() starts
    out_file,      \* the output file now
    pc,            \* where main() is: fetch, table, scan, endtable, write, done, failed
    ci,            \* index in CLASS_URLS of the division being processed
    fetched,       \* requests.get calls made so far: [cls, ok]
    all_teams,     \* main's accumulator
    by_team,       \* parse_class_page's dictionary
    ti,            \* index of the table of the for loop of line 102
    team, team_display, key, headers,
    ri,            \* index in the table's rows of the <tr> the row loop is at
    rows,          \* rows gathered for the current table
    srcs,          \* history: for each entry of rows, the index of its <tr>
    log,           \* history: [ci, ti, key, rows] of every table that ended with rows
    last           \* history: the last table located and what the locator returned

vars == <<docs, prior, out_file, pc, ci, fetched, all_teams, by_team, ti,
          team, team_display, key, headers, ri, rows, srcs, log, last>>

tableVars == <<team, team_display, key, headers, ri, rows, srcs>>

NoLast == [set |-> FALSE, table |-> Table(NoCaption, <<>>, <<>>, <<>>),
           res |-> [found |-> FALSE, team |-> <<>>, display |-> <<>>],
           skipped |-> FALSE]

Start(d, f) ==
    /\ docs = d
    /\ prior = f
    /\ out_file = f
    /\ pc = "fetch"
    /\ ci = 1
    /\ fetched = <<>>
    /\ all_teams = EmptyDict
    /\ by_team = EmptyDict
    /\ ti = 1
    /\ team = <<>> /\ team_display = <<>> /\ key = <<>> /\ headers = <<>>
    /\ ri = 1
    /\ rows = <<>>
    /\ srcs = <<>>
    /\ log = <<>>
    /\ last = NoLast

\* A page lists a team's table once.
MainPages ==
    { pg \in SeqsUpTo(MainTables, MaxTables) :
        \A i, j \in 1..Len(pg) : pg[i] = pg[j] => i = j }

Absent == [state |-> "absent", by_team |-> EmptyDict]

Init ==
    \E d \in [1..3 -> MainPages], f \in PriorFiles : Start(d, f)

InitRows ==
    \E t \in RowTables : Start(<< <<t>>, <<>>, <<>> >>, Absent)

InitLocate ==
    \E t \in LocateTables : Start(<< <<t>>, <<>>, <<>> >>, Absent)

cls_code == CLASS_URLS[ci]
CurTable == docs[ci][ti]
CurRow == CurTable.trs[ri]

\* ------------------------------------------------------------ main
\* requests.get + raise_for_status succeed: resp.text is the page.
Fetch ==
    /\ pc = "fetch"
    /\ fetched' = Append(fetched, [cls |-> cls_code, ok |-> TRUE])
    /\ by_team' = EmptyDict
    /\ ti' = 1
    /\ pc' = "table"
    /\ UNCHANGED <<docs, prior, out_file, ci, all_teams, tableVars, log, last>>

\* Mutant of FetchFail: the error is swallowed and the page counts as empty.
FetchFail_Swallowed ==
    /\ pc = "fetch"
    /\ fetched' = Append(fetched, [cls |-> cls_code, ok |-> FALSE])
    /\ by_team' = EmptyDict
    /\ ti' = Len(docs[ci]) + 1
    /\ pc' = "table"
    /\ UNCHANGED <<docs, prior, out_file, ci, all_teams, tableVars, log, last>>

\* requests.get or raise_for_status raises: nothing catches it.
FetchFail ==
    /\ pc = "fetch"
    /\ fetched' = Append(fetched, [cls |-> cls_code, ok |-> FALSE])
    /\ pc' = "failed"
    /\ UNCHANGED <<docs, prior, out_file, ci, all_teams, by_team, ti, tableVars, log, last>>

\* ------------------------------------------------------------ parse_class_page
\* Lines 102-121: locate the team and the header row of the next table.
BeginTable ==
    /\ pc = "table"
    /\ ti <= Len(docs[ci])
    /\ LET res == extract_team_name_for_table(CurTable)
           hx == HeaderIndex(CurTable.trs)
           noTeam == ~res.found \/ res.team = <<>>
       IN /\ last' = [set |-> TRUE, table |-> CurTable, res |-> res, skipped |-> noTeam]
          /\ IF noTeam \/ hx = 0
             THEN /\ ti' = ti + 1
                  /\ UNCHANGED <<pc, tableVars>>
             ELSE /\ team' = res.team
                  /\ team_display' = res.display
                  /\ key' = norm(res.team)
                  /\ headers' = CellsOf(CurTable.trs[hx])
                  /\ ri' = hx + 1
                  /\ rows' = <<>>
                  /\ srcs' = <<>>
                  /\ pc' = "scan"
                  /\ UNCHANGED ti
    /\ UNCHANGED <<docs, prior, out_file, ci, fetched, all_teams, by_team, log>>

\* Lines 125-160: one iteration of the data-row loop.
ScanRow ==
    /\ pc = "scan"
    /\ ri <= Len(CurTable.trs)
    /\ LET v == RowVerdict(CurRow, headers)
       IN /\ pc' = IF v = "break" THEN "endtable" ELSE "scan"
          /\ ri' = IF v = "break" THEN ri ELSE ri + 1
          /\ rows' = IF v = "append"
                     THEN Append(rows, StampRow(ProjectRow(headers, CellsOf(CurRow)),
                                                team, team_display, cls_code))
                     ELSE rows
          /\ srcs' = IF v = "append" THEN Append(srcs, ri) ELSE srcs
    /\ UNCHANGED <<docs, prior, out_file, ci, fetched, all_teams, by_team, ti,
                   team, team_display, key, headers, log, last>>

\* The row loop is over (break, or no <tr> left).
TableDone == pc = "endtable" \/ (pc = "scan" /\ ri > Len(CurTable.trs))

\* Lines 162-163.
EndTable ==
    /\ TableDone
    /\ by_team' = IF rows # <<>> THEN Extend(by_team, key, rows) ELSE by_team
    /\ log' = IF rows # <<>>
              THEN Append(log, [ci |-> ci, ti |-> ti, key |-> key, rows |-> rows])
              ELSE log
    /\ ti' = ti + 1
    /\ pc' = "table"
    /\ UNCHANGED <<docs, prior, out_file, ci, fetched, all_teams, tableVars, last>>

\* Lines 165 and 173-174: the page is parsed, its rows join the accumulator.
EndPage ==
    /\ pc = "table"
    /\ ti > Len(docs[ci])
    /\ all_teams' = MergeInto(all_teams, by_team)
    /\ by_team' = EmptyDict
    /\ IF ci < Len(CLASS_URLS)
       THEN ci' = ci + 1 /\ pc' = "fetch"
       ELSE ci' = ci /\ pc' = "write"
    /\ ti' = 1
    /\ UNCHANGED <<docs, prior, out_file, fetched, tableVars, log, last>>

\* Lines 176-181.
WriteOutput ==
    /\ pc = "write"
    /\ out_file' = [state |-> "written", by_team |-> all_teams]
    /\ pc' = "done"
    /\ UNCHANGED <<docs, prior, ci, fetched, all_teams, by_team, ti, tableVars, log, last>>

Next == Fetch \/ FetchFail \/ BeginTable \/ ScanRow \/ EndTable \/ EndPage \/ WriteOutput

Spec == Init /\ [][Next]_vars
SpecRows == InitRows /\ [][Next]_vars
SpecLocate == InitLocate /\ [][Next]_vars

\* ------------------------------------------------------------ main: claims
AllOk == \A i \in 1..Len(fetched) : fetched[i].ok

\* C1: divisions are fetched in the order A, B, C; a failed fetch ends the
\* run there (it is the last fetch, and nothing can follow it); the output
\* file is written only after three successful fetches, and otherwise it is
\* still the file the run started with.
C1_FailFast ==
    /\ Len(fetched) <= Len(CLASS_URLS)
    /\ \A i \in 1..Len(fetched) : fetched[i].cls = CLASS_URLS[i]
    /\ \A i \in 1..Len(fetched) : ~fetched[i].ok => (i = Len(fetched) /\ pc = "failed")
    /\ pc = "failed" => (out_file = prior /\ ~ENABLED Next)
    /\ out_file.state = "written" => (Len(fetched) = Len(CLASS_URLS) /\ AllOk)
    /\ out_file.state # "written" => out_file = prior

\* A run that parsed rows from two divisions, failed on the third and left
\* the earlier run's file alone.
C1_Witness ==
    /\ pc = "failed"
    /\ Len(fetched) = 3
    /\ DOMAIN all_teams # {}
    /\ prior.state = "prior"
    /\ out_file = prior

\* The rows of the log entries of key k, in log order.
RECURSIVE RowsFor(_, _)
RowsFor(k, lg) ==
    IF lg = <<>> THEN <<>>
    ELSE (IF Head(lg).key = k THEN Head(lg).rows ELSE <<>>) \o RowsFor(k, Tail(lg))

LogKeys == { log[i].key : i \in 1..Len(log) }

\* What the row loop does, read off the table: the loop ends at the first
\* row after the header row that holds a rule or "Total Points:", and a row
\* before that is kept when it has cells, its first cell is neither "Date"
\* nor an "opponents" label, and it has a whitelisted column.
Stops(tr) == tr.hr \/ HasTotalPoints(tr)

StopIndex(trs, h) ==
    IF \E j \in (h+1)..Len(trs) : Stops(trs[j])
    THEN CHOOSE j \in (h+1)..Len(trs) :
             Stops(trs[j]) /\ \A x \in (h+1)..(j-1) : ~Stops(trs[x])
    ELSE Len(trs) + 1

IsRepeatedHeader(tr) == tr.cells # <<>> /\ CellsOf(tr)[1] = ColDate

IsSectionLabel(tr) ==
    tr.cells # <<>> /\ StartsWith(LowerStr(CellsOf(tr)[1]), OpponentsLit)

\* A well-formed data row under the header hdrs.
WellFormed(tr, hdrs) ==
    /\ tr.cells # <<>>
    /\ ~IsRepeatedHeader(tr)
    /\ ~IsSectionLabel(tr)
    /\ \E i \in 1..Len(hdrs) : i <= Len(tr.cells) /\ hdrs[i] \in KEEP_COLS

\* The indices, in order, of the rows of trs in lo..hi that are kept.
RECURSIVE KeptIn(_, _, _, _)
KeptIn(trs, hdrs, lo, hi) ==
    IF lo > hi THEN <<>>
    ELSE (IF WellFormed(trs[lo], hdrs) THEN <<lo>> ELSE <<>>) \o KeptIn(trs, hdrs, lo + 1, hi)

\* The rows table t of a page of division cls yields.
Yield(t, cls) ==
    LET id == extract_team_name_for_table(t)
        h == HeaderIndex(t.trs)
    IN IF ~id.found \/ id.team = <<>> \/ h = 0 THEN <<>>
       ELSE LET hdrs == CellsOf(t.trs[h])
                ix == KeptIn(t.trs, hdrs, h + 1, StopIndex(t.trs, h) - 1)
            IN [n \in 1..Len(ix) |->
                   StampRow(ProjectRow(hdrs, CellsOf(t.trs[ix[n]])), id.team, id.display, cls)]

\* The tables whose row loop has ended, in processing order.
Processed ==
    { <<c, t>> \in (1..Len(CLASS_URLS)) \X (1..(MaxTables + 1)) :
        /\ t <= Len(docs[c])
        /\ c <= Len(fetched) /\ fetched[c].ok
        /\ (c < ci \/ pc \in {"write", "done"} \/ (c = ci /\ t < ti)) }

\* The log lists exactly the tables that yield rows, in division order and
\* in table order within a division, each with the rows it yields.
LogIsExtraction ==
    /\ \A i \in 1..Len(log) :
          /\ log[i].key = norm(extract_team_name_for_table(docs[log[i].ci][log[i].ti]).team)
          /\ log[i].rows = Yield(docs[log[i].ci][log[i].ti], CLASS_URLS[log[i].ci])
          /\ \A j \in 1..(i-1) :
                \/ log[j].ci < log[i].ci
                \/ (log[j].ci = log[i].ci /\ log[j].ti < log[i].ti)
    /\ \A q \in Processed :
          Yield(docs[q[1]][q[2]], CLASS_URLS[q[1]]) # <<>> =>
              \E i \in 1..Len(log) : log[i].ci = q[1] /\ log[i].ti = q[2]

\* C5: in the final payload by_team[k] is the concatenation, in division
\* order and in table order within a division, of the rows of every table
\* whose name normalizes to k; nothing is lost, duplicated or reordered.
C5_Concatenation ==
    pc = "done" =>
        /\ LogIsExtraction
        /\ out_file.state = "written"
        /\ DOMAIN out_file.by_team = LogKeys
        /\ \A k \in LogKeys : out_file.by_team[k] = RowsFor(k, log)

\* The final payload merges, under one key, tables of two divisions and two
\* tables of one page whose display names differ.
C5_Witness ==
    /\ pc = "done"
    /\ \E k \in DOMAIN out_file.by_team :
          /\ \E i, j \in 1..Len(log) :
                /\ log[i].key = k /\ log[j].key = k
                /\ log[i].ci = log[j].ci /\ log[i].ti < log[j].ti
          /\ \E i, j \in 1..Len(log) :
                /\ log[i].key = k /\ log[j].key = k
                /\ log[i].ci < log[j].ci
          /\ \E m, n \in 1..Len(out_file.by_team[k]) :
                out_file.by_team[k][m][KeyTeamDisplay] # out_file.by_team[k][n][KeyTeamDisplay]
    /\ Cardinality(DOMAIN out_file.by_team) >= 2

\* Every entry of dictionary d is a non-empty list of rows that carry the
\* three provenance fields and whose _team normalizes to the entry's key.
ConsistentDict(d) ==
    \A k \in DOMAIN d :
        /\ d[k] # <<>>
        /\ \A n \in 1..Len(d[k]) :
              /\ Provenance \subseteq DOMAIN d[k][n]
              /\ norm(d[k][n][KeyTeam]) = k

\* The divisions whose pages have been merged into the accumulator.
MergedClasses ==
    { CLASS_URLS[i] : i \in { x \in 1..Len(CLASS_URLS) : x < ci \/ pc \in {"write", "done"} } }

\* C10: the accumulator is consistent after every step: every key has a
\* non-empty list, every row's _team normalizes to its key, every row has
\* the provenance fields, and _class is the code of the page it came from.
C10_Accumulator ==
    /\ ConsistentDict(by_team)
    /\ ConsistentDict(all_teams)
    /\ ConsistentDict(out_file.by_team)
    /\ \A i \in 1..Len(log) : \A n \in 1..Len(log[i].rows) :
          log[i].rows[n][KeyClass] = CLASS_URLS[log[i].ci]
    /\ \A k \in DOMAIN by_team : \A n \in 1..Len(by_team[k]) :
          by_team[k][n][KeyClass] = cls_code
    /\ \A k \in DOMAIN all_teams : \A n \in 1..Len(all_teams[k]) :
          all_teams[k][n][KeyClass] \in MergedClasses

\* The accumulator holds two keys, one of them with rows of two divisions.
C10_Witness ==
    /\ pc = "done"
    /\ Cardinality(DOMAIN all_teams) >= 2
    /\ \E k \in DOMAIN all_teams : \E m, n \in 1..Len(all_teams[k]) :
          all_teams[k][m][KeyClass] # all_teams[k][n][KeyClass]

\* ------------------------------------------------------------ Row-Extractor: claims
InTable == pc \in {"scan", "endtable"}

HdrIx == HeaderIndex(CurTable.trs)

\* The index of the first row after the header row whose text holds
\* "Total Points:", one past the last row if there is none.
TotalIx ==
    IF \E j \in (HdrIx+1)..Len(CurTable.trs) : HasTotalPoints(CurTable.trs[j])
    THEN CHOOSE j \in (HdrIx+1)..Len(CurTable.trs) :
             /\ HasTotalPoints(CurTable.trs[j])
             /\ \A x \in (HdrIx+1)..(j-1) : ~HasTotalPoints(CurTable.trs[x])
    ELSE Len(CurTable.trs) + 1

IsRuleOnly(tr) == tr.hr /\ tr.cells = <<>>

\* C2: a row that holds only a rule and no cells does not end the scan:
\* every well-formed data row after it and before any "Total Points:" row
\* is in the output of the table.
C2_RuleRowSkipped ==
    TableDone =>
        \A i, j \in (HdrIx+1)..(TotalIx-1) :
            (i < j /\ IsRuleOnly(CurTable.trs[i]) /\ WellFormed(CurTable.trs[j], headers))
                => j \in Range(srcs)

\* C4: the scan never goes past the first "Total Points:" row: neither it
\* nor a later row is added, and the rows added before it are the
\* projections of their <tr>, in the order of the table.
C4_TotalPointsStops ==
    InTable =>
        /\ ri <= TotalIx
        /\ Len(rows) = Len(srcs)
        /\ \A n \in 1..Len(srcs) :
              /\ srcs[n] > HdrIx /\ srcs[n] < TotalIx /\ srcs[n] < ri
              /\ n > 1 => srcs[n-1] < srcs[n]
              /\ rows[n] = StampRow(ProjectRow(headers, CellsOf(CurTable.trs[srcs[n]])),
                                    team, team_display, cls_code)

\* The scan stopped at a "Total Points:" row with a row gathered before it
\* and a well-formed row after it.
C4_Witness ==
    /\ pc = "endtable"
    /\ ri = TotalIx
    /\ HasTotalPoints(CurRow)
    /\ rows # <<>>
    /\ \E j \in (ri+1)..Len(CurTable.trs) : WellFormed(CurTable.trs[j], headers)

\* C7: a row of the output holds the three provenance fields and, beside
\* them, at least one column, all from the whitelist; the columns are the
\* whitelisted header names at the positions both lists have, each with the
\* cell at its position.
RowsOfDict(d) == UNION { Range(d[k]) : k \in DOMAIN d }

ShapeOk(r) ==
    /\ Provenance \subseteq DOMAIN r
    /\ DOMAIN r \ Provenance \subseteq KEEP_COLS
    /\ DOMAIN r \ Provenance # {}

C7_Whitelist ==
    /\ \A r \in Range(rows) \cup RowsOfDict(by_team) \cup RowsOfDict(all_teams)
                \cup RowsOfDict(out_file.by_team) : ShapeOk(r)
    /\ InTable =>
          \A n \in 1..Len(rows) :
              LET cells == CellsOf(CurTable.trs[srcs[n]])
                  both == { i \in 1..Len(headers) : i <= Len(cells) }
              IN /\ DOMAIN rows[n] \ Provenance =
                        { headers[i] : i \in { x \in both : headers[x] \in KEEP_COLS } }
                 /\ \A h \in DOMAIN rows[n] \ Provenance :
                        \E i \in both : headers[i] = h /\ rows[n][h] = cells[i]
                 /\ \A i \in both :
                        (headers[i] \in KEEP_COLS /\ \A x \in both : headers[x] = headers[i] => x = i)
                            => rows[n][headers[i]] = cells[i]
    /\ InTable =>
          \A j \in (HdrIx+1)..(ri-1) :
              (\A i \in 1..Len(headers) :
                   i <= Len(CurTable.trs[j].cells) => headers[i] \notin KEEP_COLS)
                  => j \notin Range(srcs)

\* A kept row with more cells than the header has names, under a header
\* that has a column outside the whitelist; and a row with one cell, under
\* a header whose first column is outside the whitelist, was discarded.
C7_Witness ==
    /\ InTable
    /\ \E n \in 1..Len(rows) :
          /\ Len(CurTable.trs[srcs[n]].cells) > Len(headers)
          /\ \E i \in 1..Len(headers) : headers[i] \notin KEEP_COLS
    /\ \E j \in (HdrIx+1)..(ri-1) :
          /\ CurTable.trs[j].cells # <<>>
          /\ ~CurTable.trs[j].hr
          /\ \A i \in 1..Len(headers) :
                i <= Len(CurTable.trs[j].cells) => headers[i] \notin KEEP_COLS
          /\ j \notin Range(srcs)

\* C8: a repeated header row or an "opponents" label is left out and does
\* not stop the scan: every well-formed data row before and after it (and
\* before any "Total Points:" row) is in the output, stamped with the
\* division code of the page.
C8_RepeatedHeaderSkipped ==
    TableDone =>
        \A d \in (HdrIx+1)..(TotalIx-1) :
            (IsRepeatedHeader(CurTable.trs[d]) \/ IsSectionLabel(CurTable.trs[d])) =>
                /\ d \notin Range(srcs)
                /\ \A j \in (HdrIx+1)..(TotalIx-1) :
                      WellFormed(CurTable.trs[j], headers) =>
                          \E n \in 1..Len(rows) :
                              srcs[n] = j /\ rows[n][KeyClass] = cls_code

\* ------------------------------------------------------------ Team-Locator: claims
\* C3: every key of by_team, in parse_class_page's result, in the
\* accumulator and in the payload, is a non-empty string.
C3_KeysNonEmpty ==
    /\ <<>> \notin DOMAIN by_team
    /\ <<>> \notin DOMAIN all_teams
    /\ <<>> \notin DOMAIN out_file.by_team

Nearest(S) == CHOOSE n \in S : \A k \in S : n <= k

\* The nodes within MaxSteps steps before the table whose text holds
\* "Name (digits-digits)".
NearNames(t) ==
    { n \in 1..Len(t.before) :
        t.before[n].dist <= MaxSteps /\ TEAM_PAT(clean(t.before[n].text)) # <<>> }

\* The anchors before the table that read "Click Here for Excel Export".
Exports(t) == { n \in 1..Len(t.anchors) : IsExportAnchor(t.anchors[n]) }

\* Some export anchor before the table reads "... (Name)".
HasExportName(t) == \E n \in Exports(t) : ParenGroup(clean(t.anchors[n])).found

\* C6 as stated: caption, backward scan and export link in that order, the
\* first that matches decides; the table is skipped for lack of a team only
\* when none matches, so not when "Name (digits-digits)" is within 80 steps
\* before it nor when an export anchor with "(Name)" precedes it; no match
\* comes from further than 80 steps.
C6_SkippedOnlyWhenNoneMatches ==
    last.set =>
        /\ last.table.caption.present =>
              last.res.display = clean(last.table.caption.text)
        /\ last.skipped =>
              /\ ~last.table.caption.present
              /\ NearNames(last.table) = {}
              /\ ~HasExportName(last.table)

\* C6 as amended: a caption element, whatever its text, decides; without
\* one, the nearest node within MaxSteps steps that holds "Name
\* (digits-digits)" decides and the table is not skipped; without either,
\* the nearest export anchor decides if it holds a parenthesized group; the
\* table is skipped exactly when no strategy matched or the canonical name
\* the matching one gives is empty; a node further than MaxSteps steps
\* never decides.
C6_PriorityChain ==
    last.set =>
        LET t == last.table
            r == last.res
            near == NearNames(t)
            ex == Exports(t)
            byLink == ex # {} /\ ParenGroup(clean(t.anchors[Nearest(ex)])).found
        IN /\ t.caption.present => (r.found /\ r.display = clean(t.caption.text))
           /\ (~t.caption.present /\ near # {}) =>
                 /\ r.found
                 /\ r.display = TEAM_PAT(clean(t.before[Nearest(near)].text))
                 /\ ~last.skipped
           /\ (~t.caption.present /\ near = {} /\ byLink) =>
                 /\ r.found
                 /\ r.display = ParenGroup(clean(t.anchors[Nearest(ex)])).text
           /\ (~t.caption.present /\ near = {} /\ ~byLink) => ~r.found
           /\ last.skipped <=> (~r.found \/ r.team = <<>>)
           /\ (~t.caption.present /\ near = {} /\ r.found) =>
                 \A n \in 1..Len(t.before) :
                     r.display # TEAM_PAT(clean(t.before[n].text))

\* A table without caption whose only "Name (digits-digits)" node within
\* reach is exactly MaxSteps steps away, with one further away and an export
\* anchor with a name before it: the node at MaxSteps decides.
C6_Witness ==
    /\ last.set
    /\ ~last.table.caption.present
    /\ NearNames(last.table) # {}
    /\ last.table.before[Nearest(NearNames(last.table))].dist = MaxSteps
    /\ \E n \in 1..Len(last.table.before) :
          /\ last.table.before[n].dist > MaxSteps
          /\ TEAM_PAT(clean(last.table.before[n].text)) # <<>>
    /\ HasExportName(last.table)
    /\ ~last.skipped
    /\ pc = "scan"

GroupStart(c) ==
    LET n == Len(c)
        ok(p) == c[p] = "(" /\ \A x \in (p+1)..(n-1) : c[x] # ")"
    IN IF n >= 2 /\ c[n] = ")" /\ \E p \in 1..(n-1) : ok(p)
       THEN CHOOSE p \in 1..(n-1) : ok(p) /\ \A k \in 1..(p-1) : ~ok(k)
       ELSE 0

====
